---- MODULE Spec2Model ----
(***************************************************************************)
(* Warren-Cowley short-range-order calculator (src/sro-script.py).         *)
(*                                                                         *)
(* The state is the Ovito data object handed to calculate_sro: the         *)
(* particles (type ids, positions, declared element types with their       *)
(* names), the per-particle properties, the global attributes and the      *)
(* list of data objects, plus what the last call returned.  Every call of  *)
(* calculate_sro is one step.                                              *)
(*                                                                         *)
(* Floating point values are modelled as exact rationals in lowest terms,  *)
(* together with the two IEEE markers the code can produce: nan and inf.   *)
(***************************************************************************)
EXTENDS Integers, Sequences, FiniteSets

\* ------------------------------------------------------------------ bounds

MaxAtoms == 3        \* particles in the configuration: 0..MaxAtoms
MaxCalls == 2        \* calls of calculate_sro in one behaviour

Gaps == {1, 2}          \* spacing of consecutive particles on a line
Species == {1, 2}       \* declared particle type ids

\* the arguments (min_cutoff, max_cutoff, neighbor_shell) of a call: the
\* defaults, a shell of distances 2..3 under two shell indexes, a shell with
\* min_cutoff = max_cutoff, and a max_cutoff that is not positive
Arguments == {<<0, 3, 1>>, <<2, 3, 1>>, <<2, 3, 2>>, <<3, 3, 1>>, <<0, 0, 1>>}

\* names of the declared types 1 and 2 ("" = unnamed): one named and one
\* unnamed, both with the same name, one named like the other's numeric id
TypeNamings == {<<"Fe", "">>, <<"Fe", "Fe">>, <<"2", "">>}

\* ------------------------------------------------------- float arithmetic

RECURSIVE GCD(_, _)
GCD(a, b) == IF b = 0 THEN a ELSE GCD(b, a % b)

Abs(x) == IF x < 0 THEN -x ELSE x

Sign(x) == IF x < 0 THEN -1 ELSE IF x = 0 THEN 0 ELSE 1

\* np.nan
NaN == [k |-> "nan", n |-> 0, d |-> 1]

\* +inf / -inf
Inf(s) == [k |-> "inf", n |-> s, d |-> 1]

\* the finite value n/d (d # 0) in lowest terms with a positive denominator
Num(n, d) ==
    LET g == GCD(Abs(n), Abs(d))
        s == Sign(d)
    IN  [k |-> "num", n |-> (s * n) \div g, d |-> (s * d) \div g]

\* x * y
FMul(x, y) ==
    IF x.k = "nan" \/ y.k = "nan" THEN NaN
    ELSE IF x.k = "inf" \/ y.k = "inf"
         THEN IF x.n = 0 \/ y.n = 0 THEN NaN ELSE Inf(Sign(x.n) * Sign(y.n))
    ELSE Num(x.n * y.n, x.d * y.d)

\* x / y with numpy's division by zero: 0/0 = nan, x/0 = +-inf
FDiv(x, y) ==
    IF x.k = "nan" \/ y.k = "nan" THEN NaN
    ELSE IF x.k = "inf" THEN (IF y.k = "inf" THEN NaN
                              ELSE Inf(Sign(x.n) * (IF y.n < 0 THEN -1 ELSE 1)))
    ELSE IF y.k = "inf" THEN Num(0, 1)
    ELSE IF y.n = 0 THEN (IF x.n = 0 THEN NaN ELSE Inf(Sign(x.n)))
    ELSE Num(x.n * y.d, x.d * y.n)

\* x + y
FAdd(x, y) ==
    IF x.k = "nan" \/ y.k = "nan" THEN NaN
    ELSE IF x.k = "inf" THEN (IF y.k = "inf" /\ y.n # x.n THEN NaN ELSE x)
    ELSE IF y.k = "inf" THEN y
    ELSE Num(x.n * y.d + y.n * x.d, x.d * y.d)

\* x - y
FSub(x, y) == FAdd(x, [y EXCEPT !.n = -y.n])

\* float(i)
Float(i) == Num(i, 1)

\* np.isnan
IsNaN(x) == x.k = "nan"

\* ------------------------------------------------------------------ state

VARIABLES
    dataValid,          \* the data object is truthy and has .particles
    ptypes,             \* data.particles.particle_types: type id per particle
    pos,                \* particle positions (on a line)
    typeName,           \* ptypes.types: declared type id -> its name
    props,              \* data.particles: property name -> per-particle array
    attributes,         \* data.attributes: key -> value
    objects,            \* data.objects: the tables appended so far
    ret,                \* outcome of the last call: status and returned table
    pair_combinations,  \* the last call's list of ordered type pairs
    sro_values,         \* the last call's _compute_sro_values array per pair
    history             \* arguments and outcome of every call so far

vars == <<dataValid, ptypes, pos, typeName, props, attributes, objects, ret,
          pair_combinations, sro_values, history>>

Atoms == 1..Len(ptypes)

\* data.particles.count
Count == Len(ptypes)

NoTable == [x |-> <<>>, types |-> <<>>, y |-> <<>>]

\* an empty dictionary
EmptyDict == [key \in {} |-> NaN]

\* d[key] = value on a dictionary (insert, or overwrite in place)
Put(d, key, value) ==
    [x \in DOMAIN d \cup {key} |-> IF x = key THEN value ELSE d[x]]

\* --------------------------------------------------------- pure functions

Digits == <<"0", "1", "2", "3", "4", "5", "6", "7", "8", "9">>

\* str(i) of a non-negative integer
RECURSIVE str(_)
str(i) == IF i < 10 THEN Digits[i + 1]
          ELSE str(i \div 10) \o Digits[(i % 10) + 1]

\* ptypes.type_by_id(type_id): the declared element type
type_by_id(type_id) == [id |-> type_id, name |-> typeName[type_id]]

\* _generate_property_name(neighbor_shell, type_i, type_j)
_generate_property_name(neighbor_shell, type_i, type_j) ==
    LET name_i == IF type_i.name # "" THEN type_i.name ELSE str(type_i.id)
        name_j == IF type_j.name # "" THEN type_j.name ELSE str(type_j.id)
    IN  "a_" \o str(neighbor_shell) \o "_" \o name_i \o "-" \o name_j

\* variant: the pairs are drawn from every declared type (ptypes.types)
declared_types == DOMAIN typeName

\* set(ptypes): the type ids present among the particles
set_ptypes == {ptypes[a] : a \in Atoms}

\* iteration order of a Python set of small non-negative ints: ascending
RECURSIVE SetOrder(_)
SetOrder(S) ==
    IF S = {} THEN <<>>
    ELSE LET m == CHOOSE x \in S : \A y \in S : x <= y
         IN  <<m>> \o SetOrder(S \ {m})

\* variant: list(zip(set(ptypes), set(ptypes)))
zip_pairs(S) ==
    LET o == SetOrder(S)
    IN  [k \in 1..Len(o) |-> <<o[k], o[k]>>]

\* list(itertools.product(set(ptypes), set(ptypes)))
product(S) ==
    LET o == SetOrder(S)
        n == Len(o)
    IN  [k \in 1..(n * n) |-> <<o[((k - 1) \div n) + 1], o[((k - 1) % n) + 1]>>]

\* Euclidean separation of two particles
Distance(a, b) == Abs(pos[a] - pos[b])

\* list(finder.find(index)) of CutoffNeighborFinder(cutoff, data): the other
\* particles within the cutoff, each with its distance
find(cutoff, index) ==
    {[index |-> b, distance |-> Distance(index, b)] :
        b \in {c \in Atoms : c # index /\ Distance(index, c) <= cutoff}}

\* variant: [n for n in neighbors if n.distance > min_cutoff]
valid_neighbors_strict(neighbors, min_cutoff) ==
    {n \in neighbors : n.distance > min_cutoff}

\* valid_neighbors = [n for n in neighbors if n.distance >= min_cutoff]
valid_neighbors(neighbors, min_cutoff) ==
    {n \in neighbors : n.distance >= min_cutoff}

\* c_j = np.count_nonzero(ptypes == type_j) / data.particles.count
Concentration(type_j) ==
    FDiv(Float(Cardinality({a \in Atoms : ptypes[a] = type_j})), Float(Count))

\* variant: 1.0 - num_type_j_neighbors / num_neighbors * c_j
SroFormulaUnbracketed(num_type_j_neighbors, num_neighbors, c_j) ==
    FSub(Float(1), FMul(FDiv(Float(num_type_j_neighbors), Float(num_neighbors)),
                        c_j))

\* 1.0 - num_type_j_neighbors / (num_neighbors * c_j)
SroFormula(num_type_j_neighbors, num_neighbors, c_j) ==
    FSub(Float(1), FDiv(Float(num_type_j_neighbors),
                        FMul(Float(num_neighbors), c_j)))

\* variant: sro_values = np.zeros(len(ptypes))
FillZeros == Float(0)

\* the fill value of "sro_values = np.full(len(ptypes), np.nan)"
FillValue == NaN

\* _compute_sro_values(finder, ptypes, type_i, type_j, min_cutoff, c_j),
\* finder = CutoffNeighborFinder(cutoff, data)
_compute_sro_values(cutoff, type_i, type_j, min_cutoff, c_j) ==
    [index \in Atoms |->
        LET valid == valid_neighbors(find(cutoff, index), min_cutoff)
            num_neighbors == Cardinality(valid)
            num_type_j_neighbors ==
                Cardinality({n \in valid : ptypes[n.index] = type_j})
        IN  IF ptypes[index] # type_i THEN FillValue
            ELSE IF valid = {} THEN FillValue
            ELSE SroFormula(num_type_j_neighbors, num_neighbors, c_j)]

RECURSIVE SumFrom(_, _)
SumFrom(values, k) ==
    IF k = 0 THEN Float(0)
    ELSE IF IsNaN(values[k]) THEN SumFrom(values, k - 1)
    ELSE FAdd(SumFrom(values, k - 1), values[k])

\* np.nanmean(values): the mean of the entries that are not nan; nan when
\* there is none (numpy's mean of an empty slice)
nanmean(values) ==
    LET kept == {k \in 1..Len(values) : ~IsNaN(values[k])}
    IN  FDiv(SumFrom(values, Len(values)), Float(Cardinality(kept)))

\* variant: y_values kept from the call before (a list shared between calls)
StaleYValues == IF objects = <<>> THEN <<>> ELSE objects[Len(objects)].y

\* y_values = []
InitialYValues == <<>>

\* one pass of the body of
\* "for count, (type_i, type_j) in enumerate(pair_combinations)":
\* the property name, the per-particle array and the average of one pair
Iteration(pair, min_cutoff, max_cutoff, neighbor_shell) ==
    LET type_i == pair[1]
        type_j == pair[2]
        c_j == Concentration(type_j)
        values == _compute_sro_values(max_cutoff, type_i, type_j, min_cutoff, c_j)
    IN  [prop_name |-> _generate_property_name(
                          neighbor_shell, type_by_id(type_i), type_by_id(type_j)),
         values |-> values,
         avg_sro |-> nanmean(values)]

\* a dictionary after the loop has assigned d[keys[k]] = values[k] for
\* k = 1, 2, ..., Len(keys) in this order: a later assignment to a key
\* replaces an earlier one
Assigned(d, keys, values) ==
    LET written == {keys[k] : k \in 1..Len(keys)}
        last(x) == CHOOSE k \in 1..Len(keys) :
                      /\ keys[k] = x
                      /\ \A m \in 1..Len(keys) : keys[m] = x => m <= k
    IN  [x \in DOMAIN d \cup written |->
            IF x \in written THEN values[last(x)] ELSE d[x]]

\* ---------------------------------------------------------------- actions

Positions(gap) ==
    [a \in 1..(Len(gap) + 1) |->
        IF a = 1 THEN 0 ELSE
        LET RECURSIVE upto(_)
            upto(i) == IF i = 0 THEN 0 ELSE gap[i] + upto(i - 1)
        IN  upto(a - 1)]

Init ==
    /\ dataValid \in BOOLEAN
    /\ \E n \in 0..MaxAtoms :
         /\ ptypes \in (IF dataValid THEN [1..n -> Species] ELSE {<<>>})
         /\ pos \in (IF dataValid /\ n > 0
                     THEN {Positions(g) : g \in [1..(n - 1) -> Gaps]}
                     ELSE {<<>>})
    /\ Len(pos) = Len(ptypes)
    /\ typeName \in (IF dataValid THEN TypeNamings ELSE {<<"", "">>})
    /\ props = EmptyDict
    /\ attributes = EmptyDict
    /\ objects = <<>>
    /\ ret = [status |-> "none", table |-> NoTable]
    /\ pair_combinations = <<>>
    /\ sro_values = <<>>
    /\ history = <<>>

Called(min_cutoff, max_cutoff, neighbor_shell, status) ==
    [min_cutoff |-> min_cutoff, max_cutoff |-> max_cutoff,
     neighbor_shell |-> neighbor_shell, status |-> status]

\* variant: the new table takes the place of the last one
ReplaceObject(objs, table) ==
    IF objs = <<>> THEN <<table>> ELSE [objs EXCEPT ![Len(objs)] = table]

\* data.objects.append(table)
AppendObject(objs, table) == Append(objs, table)

\* calculate_sro raising: nothing of the data object is touched
Raise(error, min_cutoff, max_cutoff, neighbor_shell) ==
    /\ ret' = [status |-> error, table |-> NoTable]
    /\ pair_combinations' = <<>>
    /\ sro_values' = <<>>
    /\ history' = Append(history, Called(min_cutoff, max_cutoff, neighbor_shell, error))
    /\ UNCHANGED <<dataValid, ptypes, pos, typeName, props, attributes, objects>>

\* "if not data or not hasattr(data, 'particles'): raise ValueError"
InvalidData(min_cutoff, max_cutoff, neighbor_shell) ==
    /\ ~dataValid
    /\ Raise("ValueError", min_cutoff, max_cutoff, neighbor_shell)

\* CutoffNeighborFinder(max_cutoff, data) refuses a cutoff that is not positive
FinderError(min_cutoff, max_cutoff, neighbor_shell) ==
    /\ dataValid
    /\ max_cutoff <= 0
    /\ Raise("FinderError", min_cutoff, max_cutoff, neighbor_shell)

\* calculate_sro running to its return; "it" is what the passes of the loop
\* computed, one record per pair
Computed(min_cutoff, max_cutoff, neighbor_shell) ==
    /\ dataValid
    /\ max_cutoff > 0
    /\ LET pairs == product(set_ptypes)
           n == Len(pairs)
       IN  \E it \in {<<>> \o [k \in 1..n |->
                        Iteration(pairs[k], min_cutoff, max_cutoff, neighbor_shell)]} :
             LET y_values == InitialYValues \o [k \in 1..n |-> it[k].avg_sro]
                 table == [x |-> [k \in 1..n |-> k - 1],
                           types |-> [k \in 1..n |->
                                        [id |-> k - 1, name |-> it[k].prop_name]],
                           y |-> y_values]
             IN  /\ props' = Assigned(props, [k \in 1..n |-> it[k].prop_name],
                                           [k \in 1..n |-> it[k].values])
                 /\ attributes' = Assigned(attributes,
                                   [k \in 1..n |-> "<" \o it[k].prop_name \o ">"],
                                   [k \in 1..n |-> it[k].avg_sro])
                 /\ objects' = AppendObject(objects, table)
                 /\ ret' = [status |-> "ok", table |-> table]
                 /\ pair_combinations' = pairs
                 /\ sro_values' = [k \in 1..n |-> it[k].values]
    /\ history' = Append(history, Called(min_cutoff, max_cutoff, neighbor_shell, "ok"))
    /\ UNCHANGED <<dataValid, ptypes, pos, typeName>>

calculate_sro(min_cutoff, max_cutoff, neighbor_shell) ==
    \/ InvalidData(min_cutoff, max_cutoff, neighbor_shell)
    \/ FinderError(min_cutoff, max_cutoff, neighbor_shell)
    \/ Computed(min_cutoff, max_cutoff, neighbor_shell)

Next ==
    /\ Len(history) < MaxCalls
    /\ \E args \in Arguments : calculate_sro(args[1], args[2], args[3])

Spec == Init /\ [][Next]_vars

\* ----------------------------------------------------------------- claims

\* the arguments and outcome of the last call
Last == history[Len(history)]

\* the last call returned a table
Returned == Len(history) > 0 /\ ret.status = "ok"

\* the pairs the last call went through
PairIndex == 1..Len(pair_combinations)

\* the particles at a distance within [lo, hi] of particle a
ShellOf(a, lo, hi) ==
    {b \in Atoms \ {a} : lo <= Abs(pos[a] - pos[b]) /\ Abs(pos[a] - pos[b]) <= hi}

\* the particles of type t
OfType(t) == {a \in Atoms : ptypes[a] = t}

\* the label of pair p under shell index sh
LabelOf(sh, p) ==
    LET nm(t) == IF typeName[t] = "" THEN str(t) ELSE typeName[t]
    IN  "a_" \o str(sh) \o "_" \o nm(p[1]) \o "-" \o nm(p[2])

\* the entries of an array that hold a number
Defined(values) == {a \in 1..Len(values) : values[a].k = "num"}

RECURSIVE SumOver(_, _)
SumOver(values, S) ==
    IF S = {} THEN Float(0)
    ELSE LET a == CHOOSE x \in S : TRUE
         IN  FAdd(values[a], SumOver(values, S \ {a}))

\* the mean of the defined entries, undefined (nan) when there is none
MeanOfDefined(values) ==
    IF Defined(values) = {} THEN NaN
    ELSE FDiv(SumOver(values, Defined(values)), Float(Cardinality(Defined(values))))

\* the number of calls among the first h that returned a table
OkCalls(h) == Cardinality({m \in 1..Len(h) : h[m].status = "ok"})

\* C1: for every pair (i, j) and every particle a of type i with a non-empty
\* filtered neighbour set, the value _compute_sro_values stores is
\* 1 - (n_j / n) / c_j, n the number of filtered neighbours, n_j those of
\* type j, c_j the share of type j among all particles of the configuration.
C1_PerAtomValue ==
    Returned =>
      \A k \in PairIndex : \A a \in Atoms :
        LET i == pair_combinations[k][1]
            j == pair_combinations[k][2]
            nbrs == valid_neighbors(find(Last.max_cutoff, a), Last.min_cutoff)
            n == Cardinality(nbrs)
            n_j == Cardinality({r \in nbrs : ptypes[r.index] = j})
            c_j == Num(Cardinality(OfType(j)), Cardinality(Atoms))
        IN  (ptypes[a] = i /\ nbrs # {}) =>
              sro_values[k][a] =
                FSub(Float(1), FDiv(FDiv(Float(n_j), Float(n)), c_j))

\* a call stored a value other than 0 and 1 for a particle with two
\* neighbours in the shell, one of them of type j, c_j below 1
C1_Witness ==
    /\ Returned
    /\ \E k \in PairIndex : \E a \in Atoms :
         /\ ptypes[a] = pair_combinations[k][1]
         /\ Cardinality(ShellOf(a, Last.min_cutoff, Last.max_cutoff)) = 2
         /\ Cardinality(ShellOf(a, Last.min_cutoff, Last.max_cutoff)
                        \cap OfType(pair_combinations[k][2])) = 1
         /\ sro_values[k][a] = Num(1, 4)

\* C2: in the per-particle array of every pair (i, j) the entry of a is a
\* number exactly when a has type i and a neighbour at a distance within
\* [min_cutoff, max_cutoff]; every other entry is nan, which is not 0.
C2_DefinedIff ==
    Returned =>
      \A k \in PairIndex : \A a \in Atoms :
        LET i == pair_combinations[k][1]
            inShell == ShellOf(a, Last.min_cutoff, Last.max_cutoff)
        IN  /\ (sro_values[k][a].k = "num") <=> (ptypes[a] = i /\ inShell # {})
            /\ ~(ptypes[a] = i /\ inShell # {}) =>
                 (sro_values[k][a] = NaN /\ sro_values[k][a] # Float(0))

\* one array holds a number, an undefined entry of a particle of type i with
\* nothing in the shell, and an undefined entry of a particle of another type
C2_Witness ==
    /\ Returned
    /\ \E k \in PairIndex : \E a, b, c \in Atoms :
         /\ sro_values[k][a].k = "num"
         /\ ptypes[b] = pair_combinations[k][1]
         /\ ShellOf(b, Last.min_cutoff, Last.max_cutoff) = {}
         /\ sro_values[k][b] = NaN
         /\ ptypes[c] # pair_combinations[k][1]
         /\ sro_values[k][c] = NaN

\* C3: for every pair the average stored under "<label>" and in the table is
\* the sum of the pair's defined per-particle values over their number, and
\* undefined when there is none.
C3_AverageUnderLabel ==
    Returned =>
      \A k \in PairIndex :
        LET label == LabelOf(Last.neighbor_shell, pair_combinations[k])
        IN  /\ ret.table.y[k] = MeanOfDefined(sro_values[k])
            /\ attributes["<" \o label \o ">"] = MeanOfDefined(sro_values[k])

\* C4: the call fails, writing and returning nothing, whenever there is no
\* particle, min_cutoff >= max_cutoff or max_cutoff <= 0.
C4_InvalidInputFails ==
    \A m \in 1..Len(history) :
      (Count = 0 \/ history[m].min_cutoff >= history[m].max_cutoff
                 \/ history[m].max_cutoff <= 0)
        => history[m].status # "ok"

\* C5: the neighbours counted for a particle are exactly those at a distance
\* d with min_cutoff <= d <= max_cutoff (d = min_cutoff included), and
\* neighbor_shell has no part in it: calls that differ in neighbor_shell alone
\* return the same averages.
C5_ShellCounted ==
    /\ Returned =>
         \A k \in PairIndex : \A a \in OfType(pair_combinations[k][1]) :
           LET j == pair_combinations[k][2]
               inShell == ShellOf(a, Last.min_cutoff, Last.max_cutoff)
               n == Cardinality(inShell)
               n_j == Cardinality(inShell \cap OfType(j))
           IN  /\ {r.index : r \in valid_neighbors(find(Last.max_cutoff, a),
                                                   Last.min_cutoff)} = inShell
               /\ inShell # {} =>
                    sro_values[k][a] =
                      Num(n * Cardinality(OfType(j)) - n_j * Count,
                          n * Cardinality(OfType(j)))
    /\ \A p, q \in 1..Len(history) :
         (/\ history[p].status = "ok" /\ history[q].status = "ok"
          /\ history[p].min_cutoff = history[q].min_cutoff
          /\ history[p].max_cutoff = history[q].max_cutoff)
           => objects[OkCalls(SubSeq(history, 1, p))].y
                = objects[OkCalls(SubSeq(history, 1, q))].y

\* a particle with one neighbour below min_cutoff and one at min_cutoff
\* exactly got the value of the second alone, and two calls differed in
\* neighbor_shell only
C5_Witness ==
    /\ Returned
    /\ Len(history) = 2
    /\ history[1].status = "ok"
    /\ history[1].min_cutoff = Last.min_cutoff
    /\ history[1].max_cutoff = Last.max_cutoff
    /\ history[1].neighbor_shell # Last.neighbor_shell
    /\ \E k \in PairIndex : \E a, b, c \in Atoms :
         /\ ptypes[a] = pair_combinations[k][1]
         /\ Distance(a, b) < Last.min_cutoff
         /\ Distance(a, c) = Last.min_cutoff
         /\ ptypes[b] # ptypes[c]
         /\ ptypes[c] = pair_combinations[k][2]
         /\ ShellOf(a, Last.min_cutoff, Last.max_cutoff) = {c}
         /\ sro_values[k][a].k = "num"
         /\ sro_values[k][a] # Float(1)

\* a call with the arguments of the call before it, both returning
Repeated(h) ==
    /\ Len(h) >= 2
    /\ h[Len(h)] = h[Len(h) - 1]
    /\ h[Len(h)].status = "ok"

\* C6: a second call on the same data object with the same arguments returns
\* a table with the same labels and averages in the same order, and leaves
\* every pair's per-particle attribute and scalar summary as the first did.
C6_Idempotent ==
    [][(Len(history') = Len(history) + 1 /\ Repeated(history')) =>
         /\ ret'.table = ret.table
         /\ props' = props
         /\ attributes' = attributes]_vars

\* the same call was made twice on some particles and returned a defined
\* average
C6_Witness ==
    /\ Repeated(history)
    /\ \E k \in PairIndex : ret.table.y[k].k = "num"
    /\ objects[Len(objects)] = objects[Len(objects) - 1]

\* C7: the returned table has |S|^2 rows, one per ordered pair of the set S of
\* types present (i = j included), and row k holds the label and the average
\* of the k-th pair.
C7_TableRows ==
    Returned =>
      LET S == {ptypes[a] : a \in Atoms}
          t == ret.table
      IN  /\ Len(t.x) = Cardinality(S) * Cardinality(S)
          /\ Len(t.types) = Len(t.x)
          /\ Len(t.y) = Len(t.x)
          /\ Len(pair_combinations) = Len(t.x)
          /\ {pair_combinations[k] : k \in PairIndex} = S \X S
          /\ \A k \in PairIndex :
               /\ t.x[k] = k - 1
               /\ t.types[k].id = k - 1
               /\ t.types[k].name = LabelOf(Last.neighbor_shell, pair_combinations[k])
               /\ t.y[k] = MeanOfDefined(sro_values[k])

\* a table of four rows with two different averages came back
C7_Witness ==
    /\ Returned
    /\ Len(ret.table.x) = 4
    /\ \E k, m \in PairIndex :
         /\ ret.table.y[k].k = "num"
         /\ ret.table.y[m].k = "num"
         /\ ret.table.y[k] # ret.table.y[m]

\* C8: after a successful call the data object carries |S|^2 distinct
\* per-particle attributes and |S|^2 distinct scalar attributes, each under
\* its pair's label and holding that pair's values, whatever the names of the
\* types.
C8_OneAttributePerPair ==
    Returned =>
      LET labels == {LabelOf(Last.neighbor_shell, pair_combinations[k]) : k \in PairIndex}
      IN  /\ Cardinality(labels) = Len(pair_combinations)
          /\ \A k \in PairIndex :
               LET label == LabelOf(Last.neighbor_shell, pair_combinations[k])
               IN  /\ label \in DOMAIN props
                   /\ props[label] = sro_values[k]
                   /\ ("<" \o label \o ">") \in DOMAIN attributes
                   /\ attributes["<" \o label \o ">"] = ret.table.y[k]

\* C9: a type without particles never reaches the loop: every pair processed
\* has c_j > 0, no stored value is infinite, and every pair of types present
\* is processed and gets its values.
C9_NoZeroConcentration ==
    Returned =>
      /\ \A k \in PairIndex :
           /\ OfType(pair_combinations[k][1]) # {}
           /\ OfType(pair_combinations[k][2]) # {}
           /\ ret.table.y[k].k # "inf"
           /\ \A a \in Atoms : sro_values[k][a].k # "inf"
      /\ \A x \in DOMAIN props : \A a \in Atoms : props[x][a].k # "inf"
      /\ \A x \in DOMAIN attributes : attributes[x].k # "inf"
      /\ \A i, j \in Species :
           (OfType(i) # {} /\ OfType(j) # {}) =>
             \E k \in PairIndex : pair_combinations[k] = <<i, j>>

\* a declared type has no particle, and the call returned the one pair of the
\* other type with a defined average
C9_Witness ==
    /\ Returned
    /\ \E j \in Species : OfType(j) = {}
    /\ Len(pair_combinations) = 1
    /\ ret.table.y[1].k = "num"

\* C10: every successful call appends one table to data.objects and no call
\* removes or replaces an earlier one, so the object holds as many tables as
\* calls succeeded; a call repeating the arguments of the one before adds no
\* per-particle or scalar attribute.
C10_TablesAccumulate ==
    [][/\ Len(objects') = OkCalls(history')
       /\ SubSeq(objects', 1, Len(objects)) = objects
       /\ Len(objects') =
            Len(objects) + (IF history'[Len(history')].status = "ok" THEN 1 ELSE 0)
       /\ Repeated(history') =>
            /\ DOMAIN props' = DOMAIN props
            /\ DOMAIN attributes' = DOMAIN attributes]_vars

\* two successful calls with the same arguments left two tables and the
\* attributes of one call
C10_Witness ==
    /\ Repeated(history)
    /\ Len(objects) = 2
    /\ Cardinality(DOMAIN props) = 4
    /\ Cardinality(DOMAIN attributes) = 4

====
